---- MODULE Spec2Model ----
(***************************************************************************)
(* The EXI channel of Source/Core/Core/HW/EXI_Channel.cpp as a state       *)
(* machine: the register file (status, control, DMA address and length,    *)
(* immediate data), the three device slots, the transfer engine with its   *)
(* completion event on the CoreTiming queue, and the interrupt predicate.  *)
(*                                                                         *)
(* A u32 is a little-endian string of 4 bytes and a u64 one of 8 bytes, so *)
(* that every sum, product and cast wraps or truncates where the C++ type  *)
(* does.  The bit fields of m_Status and m_Control are small integers held *)
(* in records.                                                             *)
(***************************************************************************)
EXTENDS Integers, Sequences, FiniteSets, TLC

(***************************************************************************)
(* Fixed-width unsigned arithmetic.                                        *)
(***************************************************************************)

RECURSIVE ToBytes(_, _)
\* the w low bytes of the natural number n, least significant first
ToBytes(n, w) == IF w = 0 THEN <<>> ELSE <<n % 256>> \o ToBytes(n \div 256, w - 1)

U32(n) == ToBytes(n, 4)

U64(n) == ToBytes(n, 8)

Zero(w) == [i \in 1..w |-> 0]

\* conversion to a type of w bytes: zero extension or truncation
Resize(a, w) == [i \in 1..w |-> IF i <= Len(a) THEN a[i] ELSE 0]

\* the value is below 2^31
IsInt(a) == \A i \in 1..Len(a) : (i >= 5 => a[i] = 0) /\ (i = 4 => a[i] < 128)

RECURSIVE ToIntFrom(_, _)
ToIntFrom(a, i) == IF i > Len(a) \/ i > 4 THEN 0 ELSE a[i] + 256 * ToIntFrom(a, i + 1)

\* the value of a, for a with IsInt(a)
ToInt(a) == ToIntFrom(a, 1)

RECURSIVE AddC(_, _, _, _)
AddC(a, b, i, c) ==
    IF i > Len(a) THEN <<>>
    ELSE LET s == a[i] + b[i] + c
         IN  <<s % 256>> \o AddC(a, b, i + 1, s \div 256)

\* a + b modulo 2^(8 * Len(a)), for a and b of the same width
Add(a, b) == AddC(a, b, 1, 0)

RECURSIVE SubC(_, _, _, _)
SubC(a, b, i, c) ==
    IF i > Len(a) THEN <<>>
    ELSE LET s == a[i] - b[i] - c
         IN  <<s % 256>> \o SubC(a, b, i + 1, IF s < 0 THEN 1 ELSE 0)

\* a - b modulo 2^(8 * Len(a))
Sub(a, b) == SubC(a, b, 1, 0)

RECURSIVE LessFrom(_, _, _)
LessFrom(a, b, i) ==
    IF i = 0 THEN FALSE
    ELSE IF a[i] # b[i] THEN a[i] < b[i]
    ELSE LessFrom(a, b, i - 1)

\* a < b, for a and b of the same width
Less(a, b) == LessFrom(a, b, Len(a))

RECURSIVE MulByteC(_, _, _, _)
MulByteC(a, k, i, c) ==
    IF i > Len(a) THEN <<>>
    ELSE LET s == a[i] * k + c
         IN  <<s % 256>> \o MulByteC(a, k, i + 1, s \div 256)

\* a * k modulo 2^(8 * Len(a)), for a digit k
MulByte(a, k) == MulByteC(a, k, 1, 0)

ShiftBytes(a, n) == [i \in 1..Len(a) |-> IF i <= n THEN 0 ELSE a[i - n]]

RECURSIVE MulFrom(_, _, _)
MulFrom(a, b, i) ==
    IF i > Len(b) THEN Zero(Len(a))
    ELSE IF b[i] = 0 THEN MulFrom(a, b, i + 1)
    ELSE Add(ShiftBytes(MulByte(a, b[i]), i - 1), MulFrom(a, b, i + 1))

\* both factors below 2^15: the product is an integer TLC can hold
IsHalf(a) == \A i \in 1..Len(a) : (i >= 3 => a[i] = 0) /\ (i = 2 => a[i] < 128)

\* a * b modulo 2^(8 * Len(a)), for a and b of the same width
Mul(a, b) ==
    IF IsHalf(a) /\ IsHalf(b) THEN ToBytes(ToInt(a) * ToInt(b), Len(a))
    ELSE MulFrom(a, b, 1)

RECURSIVE DivDigit(_, _, _, _)
\* the largest digit d in lo..hi with b * d <= r
DivDigit(r, b, lo, hi) ==
    IF lo = hi THEN lo
    ELSE LET mid == (lo + hi + 1) \div 2
         IN  IF Less(r, MulByte(b, mid)) THEN DivDigit(r, b, lo, mid - 1)
             ELSE DivDigit(r, b, mid, hi)

RECURSIVE DivFrom(_, _, _, _)
\* long division in base 256 from byte i of a down to byte 1; r and b carry
\* one byte more than a, so that r * 256 + a[i] and b * d fit
DivFrom(a, b, i, r) ==
    IF i = 0 THEN <<>>
    ELSE LET r2 == <<a[i]>> \o SubSeq(r, 1, Len(r) - 1)
             d  == DivDigit(r2, b, 0, 255)
         IN  DivFrom(a, b, i - 1, Sub(r2, MulByte(b, d))) \o <<d>>

RECURSIVE DivShort(_, _, _, _)
\* long division by an integer n < 2^27, from byte i of a down to byte 1, each
\* byte as two digits of 4 bits, so that r * 16 + 15 stays below 2^31
DivShort(a, n, i, r) ==
    IF i = 0 THEN <<>>
    ELSE LET r1 == r * 16 + (a[i] \div 16)
             r2 == (r1 % n) * 16 + (a[i] % 16)
         IN  DivShort(a, n, i - 1, r2 % n) \o <<(r1 \div n) * 16 + (r2 \div n)>>

\* the divisor is below 2^27
IsShort(b) == \A i \in 1..Len(b) : (i >= 5 => b[i] = 0) /\ (i = 4 => b[i] < 8)

\* floor(a / b) for b # 0, a and b of the same width
Div(a, b) ==
    IF Less(a, b) THEN Zero(Len(a))
    ELSE IF IsShort(b) THEN DivShort(a, ToInt(b), Len(a), 0)
    ELSE DivFrom(a, Resize(b, Len(a) + 1), Len(a), Zero(Len(a) + 1))

\* static_cast<int> of a u64: the low 32 bits as a two's complement number
ToSigned32(a) ==
    a[1] + 256 * a[2] + 65536 * a[3]
      + 16777216 * (IF a[4] >= 128 THEN a[4] - 256 ELSE a[4])

\* x & 0xFFFFFFE0 on a u32
Align32(a) == [a EXCEPT ![1] = a[1] - (a[1] % 32)]

(***************************************************************************)
(* Program constants.                                                      *)
(***************************************************************************)

EXI_READ == 0

EXI_WRITE == 1

EXI_READWRITE == 2

\* m_pDevices holds one device for each of the chip-select codes 1, 2 and 4
NUM_DEVICES == 3

\* what GetDevice returns for a chip-select code that names no slot
nullptr == -1

\* SystemTimers::GetTicksPerSecond(), a u64 (the 486 MHz of the GameCube CPU)
TicksPerSecond == 486000000

ChannelIds == {0, 1, 2}

DeviceTypes == {"EXIDEVICE_NONE", "EXIDEVICE_MEMORYCARD"}

(***************************************************************************)
(* Bounds of the model.                                                    *)
(***************************************************************************)

\* at most this many transfers are kicked off in a run
MaxTransfers == 2

\* at most this many posted updateInterrupts events are in flight
MaxIrqEvents == 1

(***************************************************************************)
(* State.                                                                  *)
(***************************************************************************)
VARIABLES
    scenario,             \* which bounded set of inputs the environment draws from
    m_ChannelId,
    m_Status,             \* UEXI_STATUS, one field per bit field
    m_Control,            \* UEXI_CONTROL
    m_DMAMemoryAddress,   \* u32
    m_DMALength,          \* u32
    m_ImmData,            \* u32
    m_dma_time_start,     \* u64
    m_dma_time_length,    \* u64
    m_dma_data_start,     \* u32
    m_dma_data_length,    \* u32
    m_pDevices,           \* slot -> device: its type, CS line and interrupt line
    ticks,                \* CoreTiming::GetTicks()
    events,               \* CoreTiming: the scheduled xfer_complete events
    irq_pending,          \* CoreTiming: the posted updateInterrupts events
    started,              \* the transfers kicked off so far
    savestate,            \* the buffers PointerWrap holds: none, or the one last written
    calls,                \* the calls the last handler made on devices and CoreTiming
    ret,                  \* the last handler, with the value it returned or was given
    fault                 \* "none", or the undefined behaviour the program ran into

regs == <<m_Status, m_Control, m_DMAMemoryAddress, m_DMALength, m_ImmData>>

snapshot == <<m_dma_time_start, m_dma_time_length, m_dma_data_start, m_dma_data_length>>

timing == <<ticks, events, irq_pending>>

vars == <<scenario, m_ChannelId, regs, snapshot, m_pDevices, timing, started,
          savestate, calls, ret, fault>>

(***************************************************************************)
(* The inputs the environment draws from.  The registers take any 32-bit   *)
(* value; a scenario fixes a finite set of them, and the behaviours of the *)
(* model are those of every scenario.                                      *)
(***************************************************************************)

Bit == {0, 1}

Scenarios == {"interrupts", "chipselect", "completion", "polling", "wrap", "immediate",
              "dma", "savestate", "noslot"}

\* the channels a scenario is run on
ScenarioChannels ==
    CASE scenario = "interrupts" -> {0, 2}
      [] scenario = "chipselect" -> {1, 2}
      [] scenario = "completion" -> {1}
      [] scenario = "polling" -> {0}
      [] scenario = "wrap" -> {0}
      [] scenario = "immediate" -> {1}
      [] scenario = "dma" -> {1}
      [] scenario = "savestate" -> {0}
      [] scenario = "noslot" -> {0}

\* the values written to EXI_STATUS, decoded as UEXI_STATUS decodes them
StatusInputs ==
    CASE scenario = "interrupts" ->
           [EXIINTMASK : Bit, EXIINT : Bit, TCINTMASK : {0}, TCINT : {0},
            EXTINTMASK : Bit, EXTINT : Bit, ROMDIS : {0}, CLK : {0},
            CHIP_SELECT : {0, 2}]
      [] scenario = "chipselect" ->
           [EXIINTMASK : {0}, EXIINT : {0}, TCINTMASK : {0}, TCINT : {0},
            EXTINTMASK : {0}, EXTINT : {0}, ROMDIS : Bit, CLK : {0},
            CHIP_SELECT : 0..7]
      [] scenario = "completion" ->
           [EXIINTMASK : {0}, EXIINT : {0}, TCINTMASK : Bit, TCINT : Bit,
            EXTINTMASK : {0}, EXTINT : {0}, ROMDIS : {0}, CLK : {0},
            CHIP_SELECT : {1}]
      [] scenario \in {"polling", "wrap"} ->
           [EXIINTMASK : {0}, EXIINT : {0}, TCINTMASK : {0}, TCINT : {0},
            EXTINTMASK : {0}, EXTINT : {0}, ROMDIS : {0}, CLK : {5},
            CHIP_SELECT : {1}]
      [] scenario = "immediate" ->
           [EXIINTMASK : {0}, EXIINT : {0}, TCINTMASK : {0}, TCINT : {0},
            EXTINTMASK : {0}, EXTINT : {0}, ROMDIS : {0}, CLK : {0},
            CHIP_SELECT : {0, 1}]
      [] scenario = "dma" ->
           [EXIINTMASK : {0}, EXIINT : {0}, TCINTMASK : {0}, TCINT : {0},
            EXTINTMASK : {0}, EXTINT : {0}, ROMDIS : {0}, CLK : {2},
            CHIP_SELECT : {1}]
      [] scenario = "savestate" ->
           [EXIINTMASK : {0}, EXIINT : {0}, TCINTMASK : {0}, TCINT : {0},
            EXTINTMASK : {0}, EXTINT : Bit, ROMDIS : {0}, CLK : {3},
            CHIP_SELECT : {0}]
      [] scenario = "noslot" ->
           [EXIINTMASK : {0}, EXIINT : {0}, TCINTMASK : {0}, TCINT : {0},
            EXTINTMASK : {0}, EXTINT : {0}, ROMDIS : {0}, CLK : {4},
            CHIP_SELECT : {1, 3}]

\* the values written to EXI_DMACONTROL, decoded as UEXI_CONTROL decodes them
ControlInputs ==
    CASE scenario = "completion" ->
           [TSTART : {1}, DMA : {1}, RW : {EXI_READ}, TLEN : {0}]
      [] scenario \in {"polling", "wrap"} ->
           [TSTART : {1}, DMA : {1}, RW : {EXI_READ}, TLEN : {0}]
      [] scenario = "immediate" ->
           [TSTART : {1}, DMA : {0}, RW : 0..3, TLEN : {3}]
             \cup {[TSTART |-> 0, DMA |-> 1, RW |-> EXI_WRITE, TLEN |-> 0]}
      [] scenario = "dma" ->
           [TSTART : {1}, DMA : {1}, RW : 0..3, TLEN : {0}]
      [] scenario = "noslot" ->
           [TSTART : {1}, DMA : Bit, RW : {EXI_WRITE}, TLEN : {0}]
      [] OTHER -> {}

\* the values written to EXI_DMAADDR
AddrInputs ==
    CASE scenario = "polling" -> {U32(4112)}
      [] scenario = "wrap" -> {<<224, 255, 255, 255>>}
      [] OTHER -> {}

\* the values written to EXI_DMALENGTH: up to two blocks of 32 bytes where the
\* registers are polled; 256 bytes, 2^22 bytes and 2^29 bytes otherwise
LengthInputs ==
    CASE scenario = "polling" -> {U32(0), U32(32), U32(64)}
      [] scenario = "wrap" -> {U32(64)}
      [] scenario = "dma" -> {U32(256), <<0, 0, 64, 0>>, <<0, 0, 0, 32>>}
      [] scenario = "noslot" -> {U32(32)}
      [] OTHER -> {}

\* the values written to EXI_IMMDATA
ImmInputs ==
    IF scenario \in {"chipselect", "savestate"} THEN {<<239, 190, 173, 222>>} ELSE {}

\* what a device answers to ImmRead and ImmReadWrite
ImmReadValues == {<<239, 190, 173, 222>>, U32(1)}

\* the instants at which the emulated CPU is observed
Instants ==
    CASE scenario = "polling" -> {10, 3888, 7776}
      [] scenario = "wrap" -> {3888, 7776}
      [] scenario = "noslot" -> {10}
      [] OTHER -> {}

\* the (type, slot, notifyPresenceChanged) of the AddDevice calls
AddDeviceInputs ==
    CASE scenario = "interrupts" -> {"EXIDEVICE_MEMORYCARD"} \X {0, 1} \X {TRUE}
      [] scenario = "chipselect" -> DeviceTypes \X (0..(NUM_DEVICES - 1)) \X BOOLEAN
      [] scenario = "savestate" -> DeviceTypes \X {0} \X {TRUE}
      [] OTHER -> {}

\* the slots whose device raises and drops its interrupt line
InterruptSlots == IF scenario = "interrupts" THEN {0, 1} ELSE {}

\* the modes of the PointerWrap handed to DoState
PointerWrapModes ==
    IF scenario = "savestate" THEN {"MODE_READ", "MODE_WRITE"} ELSE {}

(***************************************************************************)
(* Devices and helpers.                                                    *)
(***************************************************************************)

\* EXIDevice_Create: a device whose CS line was never driven and that raises
\* no interrupt
EXIDevice_Create(type) == [m_deviceType |-> type, cs |-> 0, irq |-> FALSE]

\* IEXIDevice::IsPresent: the "none" device is absent
IsPresent(dev) == dev.m_deviceType # "EXIDEVICE_NONE"

\* IEXIDevice::IsInterruptSet
IsInterruptSet(dev) == dev.irq

\* variant: a code that names no slot falls back to slot 0
GetDevice_FirstSlot(chip_select) ==
    CASE chip_select = 2 -> 1
      [] chip_select = 4 -> 2
      [] OTHER -> 0

\* the slot of a chip-select code, or nullptr
GetDevice(chip_select) ==
    CASE chip_select = 1 -> 0
      [] chip_select = 2 -> 1
      [] chip_select = 4 -> 2
      [] OTHER -> nullptr

\* the bus clock in Hz, a u32
GetClockRate(st) == U32((2 ^ st.CLK) * 1000000)

\* a call the handler makes on device dev (or on CoreTiming), and its result
CallR(fn, dev, args, result) == [fn |-> fn, dev |-> dev, args |-> args, result |-> result]

Call(fn, dev, args) == CallR(fn, dev, args, <<>>)

Ret(op, val) == [op |-> op, val |-> val]

\* no undefined behaviour so far: the program is running
Running == fault = "none"

(***************************************************************************)
(* Construction.                                                           *)
(***************************************************************************)

Init ==
    /\ scenario \in Scenarios
    /\ m_ChannelId \in ScenarioChannels
    /\ m_Status = [EXIINTMASK |-> 0, EXIINT |-> 0, TCINTMASK |-> 0, TCINT |-> 0,
                   CLK |-> 0,
                   CHIP_SELECT |-> IF m_ChannelId = 1 THEN 1 ELSE 0,
                   EXTINTMASK |-> 0,
                   EXTINT |-> IF m_ChannelId \in {0, 1} THEN 1 ELSE 0,
                   EXT |-> 0, ROMDIS |-> 0]
    /\ m_Control = [TSTART |-> 0, DMA |-> 0, RW |-> 0, TLEN |-> 0]
    /\ m_DMAMemoryAddress = U32(0)
    /\ m_DMALength = U32(0)
    /\ m_ImmData = U32(0)
    /\ m_dma_time_start = U64(0)
    /\ m_dma_time_length = U64(0)
    /\ m_dma_data_start = U32(0)
    /\ m_dma_data_length = U32(0)
    /\ m_pDevices = [d \in 0..(NUM_DEVICES - 1) |-> EXIDevice_Create("EXIDEVICE_NONE")]
    /\ ticks = 0
    /\ events = <<>>
    /\ irq_pending = 0
    /\ started = 0
    /\ savestate = <<>>
    /\ calls = <<>>
    /\ ret = Ret("CEXIChannel", <<>>)
    /\ fault = "none"

(***************************************************************************)
(* EXI_STATUS.                                                             *)
(***************************************************************************)

\* the read handler: EXT is recomputed from the device of chip-select code 1
StatusRead(st) ==
    [st EXCEPT !.EXT = IF m_ChannelId = 2 THEN 0
                       ELSE IF IsPresent(m_pDevices[GetDevice(1)]) THEN 1 ELSE 0]

ReadStatus ==
    /\ Running
    /\ m_Status' = StatusRead(m_Status)
    /\ ret' = Ret("ReadStatus", m_Status')
    /\ calls' = <<>>
    /\ UNCHANGED <<scenario, savestate, started, m_ChannelId, m_Control, m_DMAMemoryAddress, m_DMALength,
                   m_ImmData, snapshot, m_pDevices, timing, fault>>

\* a write that stores every bit of newStatus as it is
StatusWrite_Verbatim(st, newStatus) ==
    [st EXCEPT !.EXIINTMASK = newStatus.EXIINTMASK, !.EXIINT = newStatus.EXIINT,
               !.TCINTMASK = newStatus.TCINTMASK, !.TCINT = newStatus.TCINT,
               !.CLK = newStatus.CLK, !.EXTINTMASK = newStatus.EXTINTMASK,
               !.EXTINT = newStatus.EXTINT,
               !.ROMDIS = IF @ = 0 THEN newStatus.ROMDIS ELSE @,
               !.CHIP_SELECT = newStatus.CHIP_SELECT]

\* a write that lets software clear ROMDIS again
StatusWrite_RomdisCleared(st, newStatus) ==
    [st EXCEPT !.EXIINTMASK = newStatus.EXIINTMASK,
               !.EXIINT = IF newStatus.EXIINT = 1 THEN 0 ELSE @,
               !.TCINTMASK = newStatus.TCINTMASK,
               !.TCINT = IF newStatus.TCINT = 1 THEN 0 ELSE @,
               !.CLK = newStatus.CLK,
               !.EXTINTMASK = newStatus.EXTINTMASK,
               !.EXTINT = IF newStatus.EXTINT = 1 THEN 0 ELSE @,
               !.ROMDIS = newStatus.ROMDIS,
               !.CHIP_SELECT = newStatus.CHIP_SELECT]

\* the fields of m_Status after a write of newStatus, CHIP_SELECT included
StatusWrite(st, newStatus) ==
    [st EXCEPT !.EXIINTMASK = newStatus.EXIINTMASK,
               !.EXIINT = IF newStatus.EXIINT = 1 THEN 0 ELSE @,
               !.TCINTMASK = newStatus.TCINTMASK,
               !.TCINT = IF newStatus.TCINT = 1 THEN 0 ELSE @,
               !.CLK = newStatus.CLK,
               !.EXTINTMASK = newStatus.EXTINTMASK,
               !.EXTINT = IF newStatus.EXTINT = 1 THEN 0 ELSE @,
               !.ROMDIS = IF @ = 0 THEN newStatus.ROMDIS ELSE @,
               !.CHIP_SELECT = newStatus.CHIP_SELECT]

\* a write that asserts the new device before it deasserts the old one
ChipSelectCalls_AssertFirst(old, new) ==
    IF old = new THEN <<>>
    ELSE (IF GetDevice(new) # nullptr
          THEN <<Call("SetCS", GetDevice(new), <<1>>)>> ELSE <<>>)
         \o (IF GetDevice(old) # nullptr
             THEN <<Call("SetCS", GetDevice(old), <<0>>)>> ELSE <<>>)

\* the SetCS calls of a write that moves CHIP_SELECT from old to new
ChipSelectCalls(old, new) ==
    IF old = new THEN <<>>
    ELSE (IF GetDevice(old) # nullptr
          THEN <<Call("SetCS", GetDevice(old), <<0>>)>> ELSE <<>>)
         \o (IF GetDevice(new) # nullptr
             THEN <<Call("SetCS", GetDevice(new), <<1>>)>> ELSE <<>>)

RECURSIVE ApplySetCS(_, _)
\* the devices after the SetCS calls cs, in their order
ApplySetCS(devs, cs) ==
    IF cs = <<>> THEN devs
    ELSE ApplySetCS([devs EXCEPT ![Head(cs).dev].cs = Head(cs).args[1]], Tail(cs))

WriteStatus(newStatus) ==
    /\ Running
    /\ irq_pending < MaxIrqEvents
    /\ m_Status' = StatusWrite(m_Status, newStatus)
    /\ LET cs == ChipSelectCalls(m_Status.CHIP_SELECT, newStatus.CHIP_SELECT)
       IN  /\ m_pDevices' = ApplySetCS(m_pDevices, cs)
           /\ calls' = cs \o <<Call("ScheduleEvent_Threadsafe_Immediate", nullptr,
                                    <<"updateInterrupts">>)>>
    /\ irq_pending' = irq_pending + 1
    /\ ret' = Ret("WriteStatus", newStatus)
    /\ UNCHANGED <<scenario, savestate, started, m_ChannelId, m_Control, m_DMAMemoryAddress, m_DMALength,
                   m_ImmData, snapshot, ticks, events, fault>>

(***************************************************************************)
(* EXI_DMAADDR and EXI_DMALENGTH.                                          *)
(***************************************************************************)

\* m_Control.TSTART && m_Control.DMA
DMAActive == m_Control.TSTART = 1 /\ m_Control.DMA = 1

\* what the read handlers look at: CoreTiming::GetTicks() and the snapshot
Transfer ==
    [now |-> ticks, time_start |-> m_dma_time_start, time_length |-> m_dma_time_length,
     data_start |-> m_dma_data_start, data_length |-> m_dma_data_length]

\* now - m_dma_time_start, a u64
Elapsed(x) == Sub(U64(x.now), x.time_start)

\* now - m_dma_time_start > m_dma_time_length
PastEnd(x) == Less(x.time_length, Elapsed(x))

\* a progress that counts the bytes still to move
Progress_Remaining(x) ==
    Div(Mul(Resize(x.data_length, 8), Sub(x.time_length, Elapsed(x))), x.time_length)

\* m_dma_data_length * (now - m_dma_time_start) / m_dma_time_length, a u64
Progress(x) == Div(Mul(Resize(x.data_length, 8), Elapsed(x)), x.time_length)

\* the division above divides by zero: undefined behaviour
DivisionByZero == DMAActive /\ ~PastEnd(Transfer) /\ m_dma_time_length = U64(0)

\* what undefined behaviour may leave in place of the quotient
UndefinedQuotients == {U64(0), [i \in 1..8 |-> 255]}

\* variant: the address is polled from the register, not from the snapshot
PolledAddress_FromRegister(x, q) ==
    Align32(IF PastEnd(x) THEN Add(m_DMAMemoryAddress, x.data_length)
            ELSE Resize(Add(Resize(m_DMAMemoryAddress, 8), q), 4))

\* the address a read during a DMA stores and returns, for the quotient q
PolledAddress(x, q) ==
    Align32(IF PastEnd(x) THEN Add(x.data_start, x.data_length)
            ELSE Resize(Add(Resize(x.data_start, 8), q), 4))

\* variant: the length is returned with its low 5 bits
PolledLength_Unaligned(x, q) ==
    IF PastEnd(x) THEN U32(0) ELSE Resize(Sub(Resize(x.data_length, 8), q), 4)

\* the length a read during a DMA stores and returns, for the quotient q
PolledLength(x, q) ==
    Align32(IF PastEnd(x) THEN U32(0)
            ELSE Resize(Sub(Resize(x.data_length, 8), q), 4))

ReadDMAAddr ==
    /\ Running
    /\ calls' = <<>>
    /\ IF ~DMAActive
       THEN /\ ret' = Ret("ReadDMAAddr", m_DMAMemoryAddress)
            /\ UNCHANGED <<m_DMAMemoryAddress, fault>>
       ELSE IF DivisionByZero
       THEN \/ /\ fault' = "EXI_DMAADDR read: division by zero"
               /\ UNCHANGED <<m_DMAMemoryAddress, ret>>
            \/ \E q \in UndefinedQuotients :
                 /\ m_DMAMemoryAddress' = PolledAddress(Transfer, q)
                 /\ ret' = Ret("ReadDMAAddr", m_DMAMemoryAddress')
                 /\ UNCHANGED fault
       ELSE /\ m_DMAMemoryAddress' = PolledAddress(Transfer, Progress(Transfer))
            /\ ret' = Ret("ReadDMAAddr", m_DMAMemoryAddress')
            /\ UNCHANGED fault
    /\ UNCHANGED <<scenario, savestate, started, m_ChannelId, m_Status, m_Control, m_DMALength, m_ImmData,
                   snapshot, m_pDevices, timing>>

ReadDMALength ==
    /\ Running
    /\ calls' = <<>>
    /\ IF ~DMAActive
       THEN /\ ret' = Ret("ReadDMALength", m_DMALength)
            /\ UNCHANGED <<m_DMALength, fault>>
       ELSE IF DivisionByZero
       THEN \/ /\ fault' = "EXI_DMALENGTH read: division by zero"
               /\ UNCHANGED <<m_DMALength, ret>>
            \/ \E q \in UndefinedQuotients :
                 /\ m_DMALength' = PolledLength(Transfer, q)
                 /\ ret' = Ret("ReadDMALength", m_DMALength')
                 /\ UNCHANGED fault
       ELSE /\ m_DMALength' = PolledLength(Transfer, Progress(Transfer))
            /\ ret' = Ret("ReadDMALength", m_DMALength')
            /\ UNCHANGED fault
    /\ UNCHANGED <<scenario, savestate, started, m_ChannelId, m_Status, m_Control, m_DMAMemoryAddress,
                   m_ImmData, snapshot, m_pDevices, timing>>

WriteDMAAddr(val) ==
    /\ Running
    /\ m_DMAMemoryAddress' = val
    /\ calls' = <<>>
    /\ ret' = Ret("WriteDMAAddr", val)
    /\ UNCHANGED <<scenario, savestate, started, m_ChannelId, m_Status, m_Control, m_DMALength, m_ImmData,
                   snapshot, m_pDevices, timing, fault>>

WriteDMALength(val) ==
    /\ Running
    /\ m_DMALength' = val
    /\ calls' = <<>>
    /\ ret' = Ret("WriteDMALength", val)
    /\ UNCHANGED <<scenario, savestate, started, m_ChannelId, m_Status, m_Control, m_DMAMemoryAddress,
                   m_ImmData, snapshot, m_pDevices, timing, fault>>

(***************************************************************************)
(* EXI_IMMDATA.                                                            *)
(***************************************************************************)

ReadImmData ==
    /\ Running
    /\ calls' = <<>>
    /\ ret' = Ret("ReadImmData", m_ImmData)
    /\ UNCHANGED <<scenario, savestate, started, m_ChannelId, regs, snapshot, m_pDevices, timing, fault>>

WriteImmData(val) ==
    /\ Running
    /\ m_ImmData' = val
    /\ calls' = <<>>
    /\ ret' = Ret("WriteImmData", val)
    /\ UNCHANGED <<scenario, savestate, started, m_ChannelId, m_Status, m_Control, m_DMAMemoryAddress,
                   m_DMALength, snapshot, m_pDevices, timing, fault>>

(***************************************************************************)
(* The interrupt predicate.                                                *)
(***************************************************************************)

\* m_Status after IsCausingInterrupt has polled the devices
PollInterrupt(st, devs) ==
    IF m_ChannelId # 2 /\ IsInterruptSet(devs[GetDevice(1)])
    THEN [st EXCEPT !.EXIINT = 1]
    ELSE IF GetDevice(st.CHIP_SELECT) # nullptr
            /\ IsInterruptSet(devs[GetDevice(st.CHIP_SELECT)])
    THEN [st EXCEPT !.EXIINT = 1]
    ELSE st

\* an interrupt predicate that forgets the masks
CausingInterrupt_Unmasked(st) == st.EXIINT = 1 \/ st.TCINT = 1 \/ st.EXTINT = 1

\* what IsCausingInterrupt returns once it has polled the devices
CausingInterrupt(st) ==
    \/ (st.EXIINT = 1 /\ st.EXIINTMASK = 1)
    \/ (st.TCINT = 1 /\ st.TCINTMASK = 1)
    \/ (st.EXTINT = 1 /\ st.EXTINTMASK = 1)

\* the parent's ExpansionInterface::UpdateInterrupts() pass asks the channel
IsCausingInterrupt ==
    /\ Running
    /\ m_Status' = PollInterrupt(m_Status, m_pDevices)
    /\ ret' = Ret("IsCausingInterrupt", CausingInterrupt(m_Status'))
    /\ calls' = <<>>
    /\ UNCHANGED <<scenario, savestate, started, m_ChannelId, m_Control, m_DMAMemoryAddress, m_DMALength,
                   m_ImmData, snapshot, m_pDevices, timing, fault>>

\* a posted updateInterrupts event fires: CEXIChannel::UpdateInterrupts
UpdateInterrupts ==
    /\ Running
    /\ irq_pending > 0
    /\ irq_pending' = irq_pending - 1
    /\ m_Status' = PollInterrupt(m_Status, m_pDevices)
    /\ ret' = Ret("UpdateInterrupts", CausingInterrupt(m_Status'))
    /\ calls' = <<Call("ExpansionInterface::UpdateInterrupts", nullptr, <<>>)>>
    /\ UNCHANGED <<scenario, savestate, started, m_ChannelId, m_Control, m_DMAMemoryAddress, m_DMALength,
                   m_ImmData, snapshot, m_pDevices, ticks, events, fault>>

(***************************************************************************)
(* EXI_DMACONTROL and the transfer engine.                                 *)
(***************************************************************************)

ReadDMAControl ==
    /\ Running
    /\ calls' = <<>>
    /\ ret' = Ret("ReadDMAControl", m_Control)
    /\ UNCHANGED <<scenario, savestate, started, m_ChannelId, regs, snapshot, m_pDevices, timing, fault>>

\* the fields of m_Control after an accepted write of newControl
ControlWrite(ctl, newControl) ==
    [ctl EXCEPT !.TLEN = newControl.TLEN, !.RW = newControl.RW,
                !.DMA = newControl.DMA, !.TSTART = newControl.TSTART]

\* the bytes of the transfer, a u32
XferSize(ctl, len) == IF ctl.DMA = 0 THEN U32(ctl.TLEN + 1) ELSE len

\* u64 xfer_time = 8 * xfer_size * GetTicksPerSecond() / GetClockRate():
\* 8 * xfer_size is a u32 product, the rest is u64 arithmetic
XferTime(xfer_size, st) ==
    Div(Mul(Resize(Mul(U32(8), xfer_size), 8), U64(TicksPerSecond)),
        Resize(GetClockRate(st), 8))

\* variant: a DMA does not call the device at kick-off
TransferCalls_DMADeferred(ctl, dev, answer) ==
    IF ctl.DMA = 0 /\ ctl.RW = EXI_WRITE
    THEN <<Call("ImmWrite", dev, <<m_ImmData, U32(ctl.TLEN + 1)>>)>>
    ELSE <<>>

\* the call on the selected device dev, if the RW code names one; answer is
\* the word the device returns to an immediate read
TransferCalls(ctl, dev, answer) ==
    IF ctl.DMA = 0
    THEN CASE ctl.RW = EXI_READ ->
                <<CallR("ImmRead", dev, <<XferSize(ctl, m_DMALength)>>, answer)>>
           [] ctl.RW = EXI_WRITE ->
                <<Call("ImmWrite", dev, <<m_ImmData, XferSize(ctl, m_DMALength)>>)>>
           [] ctl.RW = EXI_READWRITE ->
                <<CallR("ImmReadWrite", dev,
                        <<m_ImmData, XferSize(ctl, m_DMALength)>>, answer)>>
           [] OTHER -> <<>>
    ELSE CASE ctl.RW = EXI_READ ->
                <<Call("DMARead", dev, <<m_DMAMemoryAddress, m_DMALength>>)>>
           [] ctl.RW = EXI_WRITE ->
                <<Call("DMAWrite", dev, <<m_DMAMemoryAddress, m_DMALength>>)>>
           [] OTHER -> <<>>

\* a transfer that throws the answer of the device away
ImmDataAfter_Discarded(ctl, answer) == m_ImmData

\* m_ImmData after the transfer: ImmRead and ImmReadWrite store the answer
ImmDataAfter(ctl, answer) ==
    IF ctl.DMA = 0 /\ ctl.RW \in {EXI_READ, EXI_READWRITE} THEN answer ELSE m_ImmData

\* a CoreTiming that drops the event
ScheduleEvent_Dropped(cyclesIntoFuture, userdata) == events

\* CoreTiming::ScheduleEvent(cyclesIntoFuture, xfer_complete_event, userdata)
ScheduleEvent(cyclesIntoFuture, userdata) ==
    Append(events, [time |-> ticks + cyclesIntoFuture, userdata |-> userdata])

\* a write with TSTART set that finds a device: the transfer and its event
KickOff(ctl, dev) ==
    LET xfer_time == XferTime(XferSize(ctl, m_DMALength), m_Status)
    IN  /\ started < MaxTransfers
        /\ started' = started + 1
        /\ \E answer \in ImmReadValues :
             /\ m_ImmData' = ImmDataAfter(ctl, answer)
             /\ calls' = TransferCalls(ctl, dev, answer)
                           \o <<Call("ScheduleEvent", nullptr,
                                     <<ToSigned32(xfer_time), m_ChannelId>>)>>
        /\ m_dma_time_start' = U64(ticks)
        /\ m_dma_time_length' = xfer_time
        /\ m_dma_data_start' = m_DMAMemoryAddress
        /\ m_dma_data_length' = m_DMALength
        /\ events' = ScheduleEvent(ToSigned32(xfer_time), m_ChannelId)

\* a channel that accepts a control write during a transfer
ControlWriteIgnored_Never == FALSE

\* variant: only a DMA in flight makes the channel drop a control write
ControlWriteIgnored_DuringDMA == m_Control.TSTART = 1 /\ m_Control.DMA = 1

\* if (m_Control.TSTART) return: a transfer is in flight, the write is dropped
ControlWriteIgnored == m_Control.TSTART = 1

WriteDMAControl(newControl) ==
    /\ Running
    /\ ret' = Ret("WriteDMAControl", newControl)
    /\ IF ControlWriteIgnored
       THEN /\ calls' = <<>>
            /\ UNCHANGED <<m_Control, m_ImmData, snapshot, events, started>>
       ELSE /\ m_Control' = ControlWrite(m_Control, newControl)
            /\ IF m_Control'.TSTART = 1 /\ GetDevice(m_Status.CHIP_SELECT) # nullptr
               THEN KickOff(m_Control', GetDevice(m_Status.CHIP_SELECT))
               ELSE /\ calls' = <<>>
                    /\ UNCHANGED <<m_ImmData, snapshot, events, started>>
    /\ UNCHANGED <<scenario, savestate, m_ChannelId, m_Status, m_DMAMemoryAddress, m_DMALength,
                   m_pDevices, ticks, irq_pending, fault>>

\* the index in events of the event CoreTiming fires next: the earliest, and
\* among equals the first scheduled
NextEvent ==
    CHOOSE i \in 1..Len(events) :
        \A j \in 1..Len(events) :
            \/ events[i].time < events[j].time
            \/ (events[i].time = events[j].time /\ i <= j)

RemoveAt(q, i) == SubSeq(q, 1, i - 1) \o SubSeq(q, i + 1, Len(q))

\* a completion that raises no transfer-complete interrupt
CompletedStatus_NoTCINT(st) == st

\* target->m_Status.TCINT = 1
CompletedStatus(st) == [st EXCEPT !.TCINT = 1]

\* the registers, snapshot and status after the callback on a DMA
TransferComplete(userdata) ==
    /\ userdata % 256 = m_ChannelId
    /\ IF m_Control.DMA = 1
       THEN /\ m_DMALength' = U32(0)
            /\ m_DMAMemoryAddress' = Add(m_dma_data_start, m_dma_data_length)
            /\ m_dma_time_start' = U64(0)
            /\ m_dma_time_length' = U64(0)
            /\ m_dma_data_start' = U32(0)
            /\ m_dma_data_length' = U32(0)
            /\ m_Status' = PollInterrupt(CompletedStatus(m_Status), m_pDevices)
            /\ ret' = Ret("TransferComplete", CausingInterrupt(m_Status'))
            /\ calls' = <<Call("ExpansionInterface::UpdateInterrupts", nullptr, <<>>)>>
       ELSE /\ ret' = Ret("TransferComplete", <<>>)
            /\ calls' = <<>>
            /\ UNCHANGED <<m_DMALength, m_DMAMemoryAddress, snapshot, m_Status>>
    /\ m_Control' = [m_Control EXCEPT !.TSTART = 0]

\* CoreTiming fires the xfer_complete event that is due
TransferCompleteEvent ==
    /\ Running
    /\ events # <<>>
    /\ events[NextEvent].time <= ticks
    /\ TransferComplete(events[NextEvent].userdata)
    /\ events' = RemoveAt(events, NextEvent)
    /\ UNCHANGED <<scenario, savestate, started, m_ChannelId, m_ImmData, m_pDevices, ticks, irq_pending,
                   fault>>

(***************************************************************************)
(* Device slots.                                                           *)
(***************************************************************************)

\* variant: the presence change is announced on every channel
PresenceAnnounced_AnyChannel(notifyPresenceChanged) == notifyPresenceChanged

\* the presence change is announced to the CPU: channel 2 has no EXTINT
PresenceAnnounced(notifyPresenceChanged) == notifyPresenceChanged /\ m_ChannelId # 2

AddDevice(device_type, device_num, notifyPresenceChanged) ==
    /\ Running
    /\ m_pDevices' = [m_pDevices EXCEPT ![device_num] = EXIDevice_Create(device_type)]
    /\ IF PresenceAnnounced(notifyPresenceChanged)
       THEN /\ irq_pending < MaxIrqEvents
            /\ m_Status' = [m_Status EXCEPT !.EXTINT = 1]
            /\ irq_pending' = irq_pending + 1
            /\ calls' = <<Call("ScheduleEvent_Threadsafe_Immediate", nullptr,
                               <<"updateInterrupts">>)>>
       ELSE /\ calls' = <<>>
            /\ UNCHANGED <<m_Status, irq_pending>>
    /\ ret' = Ret("AddDevice", <<device_type, device_num, notifyPresenceChanged>>)
    /\ UNCHANGED <<scenario, savestate, started, m_ChannelId, m_Control, m_DMAMemoryAddress, m_DMALength,
                   m_ImmData, snapshot, ticks, events, fault>>

\* a device other than the "none" device raises or drops its interrupt line
DeviceInterrupt(d) ==
    /\ Running
    /\ IsPresent(m_pDevices[d])
    /\ m_pDevices' = [m_pDevices EXCEPT ![d].irq = ~@]
    /\ calls' = <<>>
    /\ ret' = Ret("DeviceInterrupt", d)
    /\ UNCHANGED <<scenario, savestate, started, m_ChannelId, regs, snapshot, timing, fault>>

(***************************************************************************)
(* Savestates.                                                             *)
(***************************************************************************)

\* what DoState puts into the buffer: the five registers, then for each slot the
\* type of the device followed by what the device itself saves
Serialize(st, addr, len, ctl, imm, devs) ==
    [status |-> st, dma_addr |-> addr, dma_length |-> len, control |-> ctl,
     imm_data |-> imm,
     slots |-> [d \in 0..(NUM_DEVICES - 1) |->
                  [type |-> devs[d].m_deviceType, body |-> devs[d].irq]]]

\* IEXIDevice::DoState in MODE_READ: the device takes its state from the buffer
DeviceDoState(dev, body) == [dev EXCEPT !.irq = body]

\* the device that takes the stored state of a slot
SaveDevice(dev, type) ==
    IF type = dev.m_deviceType THEN dev ELSE EXIDevice_Create(type)

\* variant: the live device is kept whatever the stored type
LoadedDevice_KeepLive(dev, slot) == DeviceDoState(dev, slot.body)

\* the device a slot holds after a load
LoadedDevice(dev, slot) == DeviceDoState(SaveDevice(dev, slot.type), slot.body)

\* the AddDevice calls of a load, slot after slot
RECURSIVE LoadCalls(_, _, _)
LoadCalls(devs, slots, d) ==
    IF d >= NUM_DEVICES THEN <<>>
    ELSE (IF slots[d].type # devs[d].m_deviceType
          THEN <<Call("AddDevice", d, <<slots[d].type, FALSE>>)>>
          ELSE <<>>) \o LoadCalls(devs, slots, d + 1)

DoState(mode) ==
    /\ Running
    /\ IF mode = "MODE_READ"
       THEN /\ savestate # <<>>
            /\ LET p == savestate[1]
               IN  /\ m_Status' = p.status
                   /\ m_DMAMemoryAddress' = p.dma_addr
                   /\ m_DMALength' = p.dma_length
                   /\ m_Control' = p.control
                   /\ m_ImmData' = p.imm_data
                   /\ m_pDevices' = [d \in 0..(NUM_DEVICES - 1) |->
                                       LoadedDevice(m_pDevices[d], p.slots[d])]
                   /\ calls' = LoadCalls(m_pDevices, p.slots, 0)
            /\ UNCHANGED savestate
       ELSE /\ savestate' = <<Serialize(m_Status, m_DMAMemoryAddress, m_DMALength,
                                        m_Control, m_ImmData, m_pDevices)>>
            /\ calls' = <<>>
            /\ UNCHANGED <<regs, m_pDevices>>
    /\ ret' = Ret("DoState", mode)
    /\ UNCHANGED <<scenario, started, m_ChannelId, snapshot, timing, fault>>

(***************************************************************************)
(* Time.                                                                   *)
(***************************************************************************)

\* the emulated CPU runs on to a later instant
Tick(t) ==
    /\ Running
    /\ t > ticks
    /\ ticks' = t
    /\ calls' = <<>>
    /\ ret' = Ret("Tick", <<>>)
    /\ UNCHANGED <<scenario, savestate, started, m_ChannelId, regs, snapshot, m_pDevices, events,
                   irq_pending, fault>>

\* CoreTiming::Advance: the emulated CPU runs on to the deadline of the next event
Advance ==
    /\ Running
    /\ events # <<>>
    /\ events[NextEvent].time > ticks
    /\ ticks' = events[NextEvent].time
    /\ calls' = <<>>
    /\ ret' = Ret("Advance", <<>>)
    /\ UNCHANGED <<scenario, savestate, started, m_ChannelId, regs, snapshot, m_pDevices, events,
                   irq_pending, fault>>

(***************************************************************************)
(* The specification.                                                      *)
(***************************************************************************)

Next ==
    \/ ReadStatus
    \/ \E v \in StatusInputs : WriteStatus(v)
    \/ ReadDMAAddr
    \/ \E v \in AddrInputs : WriteDMAAddr(v)
    \/ ReadDMALength
    \/ \E v \in LengthInputs : WriteDMALength(v)
    \/ ReadDMAControl
    \/ \E v \in ControlInputs : WriteDMAControl(v)
    \/ ReadImmData
    \/ \E v \in ImmInputs : WriteImmData(v)
    \/ TransferCompleteEvent
    \/ UpdateInterrupts
    \/ IsCausingInterrupt
    \/ \E a \in AddDeviceInputs : AddDevice(a[1], a[2], a[3])
    \/ \E d \in InterruptSlots : DeviceInterrupt(d)
    \/ \E mode \in PointerWrapModes : DoState(mode)
    \/ \E t \in Instants : Tick(t)
    \/ Advance

Spec == Init /\ [][Next]_vars

\* CoreTiming runs the emulated CPU on to the next deadline and fires the event
\* that is due: neither is put off for ever
FairSpec == Spec /\ WF_vars(Advance) /\ WF_vars(TransferCompleteEvent)

(***************************************************************************)
(* Properties of the channel.                                              *)
(***************************************************************************)

\* the step is one of the handler op, which ran to its end: every handler
\* leaves its name in ret
Did(op) == ret'.op = op /\ fault' = fault

\* C1: a write to EXI_DMACONTROL while TSTART = 1 changes none of the control
\* fields, m_ImmData, m_DMAMemoryAddress, m_DMALength, the transfer snapshot
\* or the pending xfer_complete events, and calls no device: whatever the
\* written value
C1_BusyControlWriteIgnored ==
    [][(m_Control.TSTART = 1 /\ Did("WriteDMAControl")) =>
          /\ UNCHANGED <<m_Control, m_ImmData, m_DMAMemoryAddress, m_DMALength,
                         snapshot, events>>
          /\ calls' = <<>>]_vars

\* a write of other control fields has just been dropped during a transfer
\* whose event is pending
C1_Witness ==
    /\ ret.op = "WriteDMAControl"
    /\ m_Control.TSTART = 1
    /\ events # <<>>
    /\ calls = <<>>
    /\ ret.val.RW # m_Control.RW

\* C2: right after an xfer_complete event has fired TSTART is 0; if the
\* transfer was a DMA then m_DMALength is 0, m_DMAMemoryAddress is the sum of
\* the start address and the length captured at kick-off, the snapshot is
\* zero and TCINT is 1
C2_AfterCompletion ==
    [][Did("TransferComplete") =>
         /\ m_Control'.TSTART = 0
         /\ m_Control.DMA = 1 =>
              /\ m_DMALength' = U32(0)
              /\ m_DMAMemoryAddress' = Add(m_dma_data_start, m_dma_data_length)
              /\ m_dma_time_start' = U64(0)
              /\ m_dma_time_length' = U64(0)
              /\ m_dma_data_start' = U32(0)
              /\ m_dma_data_length' = U32(0)
              /\ m_Status'.TCINT = 1]_vars

\* a DMA of 64 bytes from address 4112 has just completed
C2_Witness ==
    /\ ret.op = "TransferComplete"
    /\ m_Control = [TSTART |-> 0, DMA |-> 1, RW |-> EXI_READ, TLEN |-> 0]
    /\ m_DMAMemoryAddress = U32(4176)
    /\ m_DMALength = U32(0)
    /\ m_Status.TCINT = 1
    /\ ticks >= 7776

\* C3: after a write to EXI_STATUS each of the latches EXIINT, TCINT and
\* EXTINT is 0 if the written value has its bit set and keeps its value if
\* not, and each of the three mask bits is the written mask bit
C3_StatusWriteLatches ==
    [][Did("WriteStatus") =>
         LET v == ret'.val
         IN  /\ m_Status'.EXIINT = IF v.EXIINT = 1 THEN 0 ELSE m_Status.EXIINT
             /\ m_Status'.TCINT = IF v.TCINT = 1 THEN 0 ELSE m_Status.TCINT
             /\ m_Status'.EXTINT = IF v.EXTINT = 1 THEN 0 ELSE m_Status.EXTINT
             /\ m_Status'.EXIINTMASK = v.EXIINTMASK
             /\ m_Status'.TCINTMASK = v.TCINTMASK
             /\ m_Status'.EXTINTMASK = v.EXTINTMASK]_vars

\* a write has just cleared EXIINT, kept EXTINT at 1 and set both masks
C3_Witness ==
    /\ ret.op = "WriteStatus"
    /\ ret.val.EXIINT = 1 /\ m_Status.EXIINT = 0
    /\ ret.val.EXTINT = 0 /\ m_Status.EXTINT = 1
    /\ m_Status.EXIINTMASK = 1 /\ m_Status.EXTINTMASK = 1

\* C4: ROMDIS never goes back from 1 to 0, whatever the operation; a write to
\* EXI_STATUS with ROMDIS = 0 leaves a ROMDIS of 1 at 1, and one with
\* ROMDIS = 1 sets a ROMDIS of 0 to 1
C4_RomdisMonotonic ==
    [][/\ m_Status.ROMDIS = 1 => m_Status'.ROMDIS = 1
       /\ (Did("WriteStatus") /\ ret'.val.ROMDIS = 1) => m_Status'.ROMDIS = 1]_vars

\* a write with ROMDIS = 0 has just left ROMDIS at 1
C4_Witness ==
    /\ ret.op = "WriteStatus"
    /\ ret.val.ROMDIS = 0
    /\ m_Status.ROMDIS = 1


\* Exact arithmetic: 12 bytes hold a u32 times a u64 plus a u32 without loss.
Wide(a) == Resize(a, 12)

\* a, read as a number, is below 2^(8 * w)
Fits(a, w) == \A i \in (w + 1)..Len(a) : a[i] = 0

\* a with its low 5 bits cleared
Cleared5(a) == [a EXCEPT ![1] = (a[1] \div 32) * 32]

\* floor(length_total * e / t_duration) of the transfer x
ExactProgress(x) ==
    Div(Mul(Wide(x.data_length), Wide(Elapsed(x))), Wide(x.time_length))

\* (addr_start + floor(length_total * e / t_duration)) with the low 5 bits cleared
ExactAddress(x) == Cleared5(Add(Wide(x.data_start), ExactProgress(x)))

\* (length_total - floor(length_total * e / t_duration)) with the low 5 bits cleared
ExactLength(x) == Cleared5(Sub(Wide(x.data_length), ExactProgress(x)))

\* t_duration > 0 and e <= t_duration
InTime(x) == x.time_length # U64(0) /\ ~PastEnd(x)

\* a DMA is in flight with t_duration > 0 and e <= t_duration
Timed == DMAActive /\ InTime(Transfer)

\* the transfer x is in flight, in time, before the step and after it, as y
SameTransfer(x, y) ==
    DMAActive /\ DMAActive' /\ snapshot' = snapshot /\ InTime(x) /\ InTime(y)

\* what a read of EXI_DMAADDR and of EXI_DMALENGTH returns at x
AddrRead(x) == PolledAddress(x, Progress(x))
LengthRead(x) == PolledLength(x, Progress(x))

\* the statement of C5 as it stands: during a DMA with t_duration > 0 a read
\* of EXI_DMAADDR at e <= t_duration returns the exact address, a read of
\* EXI_DMALENGTH the exact length, and as time goes on the addresses read
\* never decrease and the lengths read never increase
C5_AsStated ==
    [][\A x \in {Transfer}, y \in {Transfer'} :
         /\ (Did("ReadDMAAddr") /\ Timed) => Wide(ret'.val) = ExactAddress(x)
         /\ (Did("ReadDMALength") /\ Timed) => Wide(ret'.val) = ExactLength(x)
         /\ (x # y /\ SameTransfer(x, y)) =>
               /\ ~Less(AddrRead(y), AddrRead(x))
               /\ ~Less(LengthRead(x), LengthRead(y))]_vars

\* addr_start + length_total is a 32-bit address
AddressFits(x) == Fits(Add(Wide(x.data_start), Wide(x.data_length)), 4)

\* length_total * e is a 64-bit number
ProductFits(x) == Fits(Mul(Wide(x.data_length), Wide(Elapsed(x))), 8)

\* C5: during a DMA with t_duration > 0, at e <= t_duration and with
\* length_total * e below 2^64, a read of EXI_DMALENGTH returns the exact
\* length and the lengths read never increase; if moreover addr_start +
\* length_total is below 2^32 a read of EXI_DMAADDR returns the exact address
\* and the addresses read never decrease
C5_ProgressReads ==
    [][\A x \in {Transfer}, y \in {Transfer'} :
         /\ (Did("ReadDMALength") /\ Timed /\ ProductFits(x)) =>
               Wide(ret'.val) = ExactLength(x)
         /\ (Did("ReadDMAAddr") /\ Timed /\ ProductFits(x) /\ AddressFits(x)) =>
               Wide(ret'.val) = ExactAddress(x)
         /\ (x # y /\ SameTransfer(x, y) /\ ProductFits(x) /\ ProductFits(y)) =>
               /\ ~Less(LengthRead(x), LengthRead(y))
               /\ AddressFits(x) => ~Less(AddrRead(y), AddrRead(x))]_vars

\* half way through a DMA of 64 bytes from address 4112 a read of EXI_DMAADDR
\* has just returned 4128, which is 4112 + 32 with the low 5 bits cleared
C5_Witness ==
    /\ ret = Ret("ReadDMAAddr", U32(4128))
    /\ DMAActive
    /\ m_dma_data_start = U32(4112)
    /\ m_dma_data_length = U32(64)
    /\ m_dma_time_length = U64(7776)
    /\ Elapsed(Transfer) = U64(3888)

\* the slot a chip-select code decodes to: 1, 2 and 4 are slots 0, 1 and 2
Decoded(c) == c \in {1, 2, 4}
SlotOf(c) == CASE c = 1 -> 0 [] c = 2 -> 1 [] c = 4 -> 2

\* the SetCS calls among the calls cl, in their order
SetCSCalls(cl) == SelectSeq(cl, LAMBDA c : c.fn = "SetCS")

\* C6: a write to EXI_STATUS that moves CHIP_SELECT from a to b # a calls
\* SetCS(0) once on the device a decodes to, if it decodes, then SetCS(1) once
\* on the device b decodes to, if it decodes, in that order and on no other
\* device; a write that leaves CHIP_SELECT as it is calls no SetCS; a move to
\* b = 0 only deasserts
C6_ChipSelectOrder ==
    [][Did("WriteStatus") =>
         LET a == m_Status.CHIP_SELECT
             b == ret'.val.CHIP_SELECT
             deassert == IF Decoded(a)
                         THEN <<[fn |-> "SetCS", dev |-> SlotOf(a), args |-> <<0>>,
                                 result |-> <<>>]>>
                         ELSE <<>>
             assert == IF Decoded(b)
                       THEN <<[fn |-> "SetCS", dev |-> SlotOf(b), args |-> <<1>>,
                               result |-> <<>>]>>
                       ELSE <<>>
         IN  /\ m_Status'.CHIP_SELECT = b
             /\ SetCSCalls(calls') = IF a = b THEN <<>> ELSE deassert \o assert]_vars

\* a write has just moved CHIP_SELECT from 1 to 4: SetCS(0) on slot 0, then
\* SetCS(1) on slot 2
C6_Witness ==
    /\ ret.op = "WriteStatus"
    /\ m_Status.CHIP_SELECT = 4
    /\ Len(calls) = 3
    /\ calls[1] = [fn |-> "SetCS", dev |-> 0, args |-> <<0>>, result |-> <<>>]
    /\ calls[2] = [fn |-> "SetCS", dev |-> 2, args |-> <<1>>, result |-> <<>>]
    /\ m_pDevices[0].cs = 0 /\ m_pDevices[2].cs = 1

\* IsCausingInterrupt polls the device in slot always and the selected device
\* otherwise, sets EXIINT if one of them raises its interrupt, changes nothing
\* else and returns the masked latches of the status it leaves
InterruptPolled(always) ==
    Did("IsCausingInterrupt") =>
         LET sel == m_Status.CHIP_SELECT
             raised == \/ m_ChannelId # 2 /\ m_pDevices[always].irq
                       \/ Decoded(sel) /\ m_pDevices[SlotOf(sel)].irq
         IN  /\ m_Status' = IF raised THEN [m_Status EXCEPT !.EXIINT = 1] ELSE m_Status
             /\ ret'.val = (\/ m_Status'.EXIINT = 1 /\ m_Status'.EXIINTMASK = 1
                            \/ m_Status'.TCINT = 1 /\ m_Status'.TCINTMASK = 1
                            \/ m_Status'.EXTINT = 1 /\ m_Status'.EXTINTMASK = 1)
             /\ (m_Status'.EXIINTMASK = 0 /\ m_Status'.TCINTMASK = 0
                   /\ m_Status'.EXTINTMASK = 0) => ret'.val = FALSE

\* the statement of C7 as it stands: on a channel other than 2 the device
\* polled whatever the chip select is the one in slot 1
C7_AsStated == [][InterruptPolled(1)]_vars

\* C7: IsCausingInterrupt sets EXIINT to 1 if the channel is not 2 and the
\* device of chip-select code 1, which is slot 0, raises its interrupt, or
\* else if the selected device raises its interrupt; it clears no latch and
\* returns (EXIINT and EXIINTMASK) or (TCINT and TCINTMASK) or (EXTINT and
\* EXTINTMASK) of the status it leaves, so FALSE when the three masks are 0
C7_InterruptPredicate == [][InterruptPolled(0)]_vars

\* with nothing selected, the interrupt of the device in slot 0 has just set
\* EXIINT and, EXIINTMASK being 1, made IsCausingInterrupt return TRUE
C7_Witness ==
    /\ ret = Ret("IsCausingInterrupt", TRUE)
    /\ m_Status.CHIP_SELECT = 0
    /\ m_pDevices[0].irq /\ ~m_pDevices[1].irq
    /\ m_Status.EXIINT = 1 /\ m_Status.EXIINTMASK = 1
    /\ m_Status.EXTINTMASK = 0

\* the step is a write to EXI_DMACONTROL that sets TSTART from 0 to 1 while
\* CHIP_SELECT decodes to a slot
KickedOff ==
    /\ Did("WriteDMAControl")
    /\ m_Control.TSTART = 0 /\ m_Control'.TSTART = 1
    /\ Decoded(m_Status.CHIP_SELECT)

\* C8: a write to EXI_DMACONTROL that sets TSTART from 0 to 1 while
\* CHIP_SELECT decodes to a slot schedules an xfer_complete event for the
\* channel; TSTART is 1 as long as an event is pending and goes back to 0 only
\* when the event fires; and if CoreTiming fires every scheduled event, which
\* it no longer does once the program has run into undefined behaviour, TSTART
\* is eventually 0
C8_KickOffCompletes ==
    /\ [][/\ KickedOff =>
               /\ Len(events') = Len(events) + 1
               /\ SubSeq(events', 1, Len(events)) = events
               /\ events'[Len(events')].userdata = m_ChannelId
               /\ calls' # <<>>
               /\ calls'[Len(calls')].fn = "ScheduleEvent"
          /\ events # <<>> => m_Control.TSTART = 1
          /\ (m_Control.TSTART = 1 /\ m_Control'.TSTART = 0) =>
               /\ Did("TransferComplete")
               /\ Len(events') = Len(events) - 1]_vars
    /\ (m_Control.TSTART = 1 /\ events # <<>>)
         ~> (m_Control.TSTART = 0 \/ fault # "none")

\* the event of a DMA of 256 bytes has just fired, 248832 ticks after the
\* kick-off, and TSTART is back to 0
C8_Witness ==
    /\ ret.op = "TransferComplete"
    /\ m_Control = [TSTART |-> 0, DMA |-> 1, RW |-> EXI_WRITE, TLEN |-> 0]
    /\ m_DMAMemoryAddress = U32(256)
    /\ ticks = 248832
    /\ events = <<>>

\* the call an immediate transfer of code rw makes
ImmCallName(rw) ==
    CASE rw = EXI_READ -> "ImmRead"
      [] rw = EXI_WRITE -> "ImmWrite"
      [] rw = EXI_READWRITE -> "ImmReadWrite"

\* C9: an immediate transfer with RW in {0, 1, 2} on a selected device makes
\* its device call with the size TLEN + 1 inside the write to EXI_DMACONTROL,
\* and for RW = 0 m_ImmData is what ImmRead returned; TSTART stays 1 until the
\* event fires; the event of an immediate transfer clears TSTART and leaves
\* TCINT, m_DMAMemoryAddress and m_DMALength as they are
C9_ImmediateTransfer ==
    [][/\ (KickedOff /\ m_Control'.DMA = 0 /\ m_Control'.RW \in {0, 1, 2}) =>
            /\ calls'[1].fn = ImmCallName(m_Control'.RW)
            /\ calls'[1].dev = SlotOf(m_Status.CHIP_SELECT)
            /\ calls'[1].args[Len(calls'[1].args)] = U32(m_Control'.TLEN + 1)
            /\ \A i \in 2..Len(calls') : calls'[i].dev = nullptr
            /\ m_Control'.RW = EXI_READ => m_ImmData' = calls'[1].result
            /\ m_Control'.RW = EXI_WRITE => calls'[1].args[1] = m_ImmData
       /\ (m_Control.DMA = 0 /\ m_Control.TSTART = 1 /\ ~Did("TransferComplete")) =>
            m_Control'.TSTART = 1
       /\ (m_Control.DMA = 0 /\ Did("TransferComplete")) =>
            /\ m_Control' = [m_Control EXCEPT !.TSTART = 0]
            /\ m_Status'.TCINT = m_Status.TCINT
            /\ UNCHANGED <<m_DMAMemoryAddress, m_DMALength>>]_vars

\* an immediate read of 4 bytes has just stored the 0xDEADBEEF the device in
\* slot 0 answered, and TSTART is 1
C9_Witness ==
    /\ ret.op = "WriteDMAControl"
    /\ m_Control = [TSTART |-> 1, DMA |-> 0, RW |-> EXI_READ, TLEN |-> 3]
    /\ calls[1] = [fn |-> "ImmRead", dev |-> 0, args |-> <<U32(4)>>,
                   result |-> <<239, 190, 173, 222>>]
    /\ m_ImmData = <<239, 190, 173, 222>>
    /\ m_Status.TCINT = 0

\* 8 * xfer_size * ticks per second / ((1 << CLK) * 1000000) in exact
\* arithmetic, for the control value ctl, the length len and the clock code clk
ExactDuration(ctl, len, clk) ==
    Div(Mul(Mul(Wide(U32(8)), Wide(IF ctl.DMA = 0 THEN U32(ctl.TLEN + 1) ELSE len)),
            Wide(U64(TicksPerSecond))),
        Wide(U32((2 ^ clk) * 1000000)))

\* C10: the xfer_complete event of every transfer kicked off is scheduled
\* exactly 8 * xfer_size * ticks per second / ((1 << CLK) * 1000000) ticks
\* after the kick-off, without truncation or wrap-around, xfer_size being
\* TLEN + 1 for an immediate transfer and m_DMALength for a DMA
C10_AsStated ==
    [][KickedOff =>
         \A delay \in {events'[Len(events')].time - ticks} :
            /\ delay >= 0
            /\ ToBytes(delay, 12)
                 = ExactDuration(m_Control', m_DMALength, m_Status.CLK)]_vars

(***************************************************************************)
(* C11.  AddDevice and EXTINT.                                             *)
(***************************************************************************)

\* C11: AddDevice(type, num, notify) puts a device of that type into the slot;
\* it sets EXTINT = 1 and schedules a re-evaluation of the interrupt line
\* exactly when notify is true and the channel is not channel 2; otherwise the
\* whole status register is left as it was and nothing is scheduled
C11_AddDeviceNotifies ==
    [][ Did("AddDevice") =>
          LET type   == ret'.val[1]
              num    == ret'.val[2]
              notify == ret'.val[3]
              scheduled == \E i \in 1..Len(calls') :
                              calls'[i].fn = "ScheduleEvent_Threadsafe_Immediate"
          IN  /\ m_pDevices'[num].m_deviceType = type
              /\ \A d \in (0..(NUM_DEVICES - 1)) \ {num} : m_pDevices'[d] = m_pDevices[d]
              /\ (notify /\ m_ChannelId # 2) <=> scheduled
              /\ scheduled <=> irq_pending' = irq_pending + 1
              /\ ~scheduled => irq_pending' = irq_pending
              /\ IF notify /\ m_ChannelId # 2
                 THEN m_Status' = [m_Status EXCEPT !.EXTINT = 1]
                 ELSE m_Status' = m_Status ]_vars

\* a notifying AddDevice on channel 0 has raised EXTINT and scheduled the
\* re-evaluation
C11_Witness ==
    /\ ret.op = "AddDevice"
    /\ ret.val[3]
    /\ m_ChannelId = 0
    /\ m_Status.EXTINT = 1
    /\ irq_pending = 1
    /\ calls # <<>>

(***************************************************************************)
(* C12.  Savestate round trip.                                             *)
(***************************************************************************)

\* the registers and the type tags of a buffer, without the devices' own state
Tags(p) == [p EXCEPT !.slots = [d \in 0..(NUM_DEVICES - 1) |-> p.slots[d].type]]

\* the slots whose stored type differs from the type of the live device
Mismatched(p, devs) ==
    {d \in 0..(NUM_DEVICES - 1) : p.slots[d].type # devs[d].m_deviceType}

C13_NoDeviceKickOff ==
    [][ /\ ( /\ Did("WriteDMAControl")
             /\ m_Control.TSTART = 0
             /\ ret'.val.TSTART = 1
             /\ ~Decoded(m_Status.CHIP_SELECT) )
           => /\ calls' = <<>>
              /\ m_Control'.TSTART = 1
              /\ events' = <<>>
              /\ UNCHANGED <<m_ImmData, m_DMAMemoryAddress, m_DMALength, snapshot,
                             events>>
        /\ ( /\ ret'.op # "DoState"
             /\ m_Control.TSTART = 1
             /\ events = <<>> )
           => /\ m_Control'.TSTART = 1
              /\ events' = <<>>
              /\ (ret'.op = "WriteDMAControl" => m_Control' = m_Control /\ calls' = <<>>)
      ]_vars

\* the channel is stuck: TSTART is set, nothing is pending, and the last
\* DMACONTROL write found no device under a CHIP_SELECT of 3
C13_Witness ==
    /\ ret.op = "WriteDMAControl"
    /\ ret.val.DMA = 1
    /\ m_Control.TSTART = 1
    /\ m_Control.DMA = 1
    /\ events = <<>>
    /\ started > 0
    /\ m_Status.CHIP_SELECT = 3
    /\ calls = <<>>

(***************************************************************************)
(* C14.  A kick-off with an RW code that names no operation.               *)
(***************************************************************************)

\* the RW code of the control value names no operation of its kind of transfer
InvalidRW(ctl) ==
    IF ctl.DMA = 1 THEN ctl.RW \notin {EXI_READ, EXI_WRITE}
    ELSE ctl.RW \notin {EXI_READ, EXI_WRITE, EXI_READWRITE}

\* C14: a kick-off with an invalid RW code calls no device operation, and the
\* completion of that transfer does not raise TCINT (the control register
\* keeps the RW code of the kick-off until the completion)
C14_AsStated ==
    [][ /\ ( /\ Did("WriteDMAControl")
             /\ m_Control.TSTART = 0
             /\ m_Control'.TSTART = 1
             /\ InvalidRW(m_Control') )
           => \A i \in 1..Len(calls') : calls'[i].fn = "ScheduleEvent"
        /\ ( /\ Did("TransferComplete")
             /\ InvalidRW(m_Control) )
           => (m_Status.TCINT = 0 => m_Status'.TCINT = 0)
      ]_vars

(***************************************************************************)
(* C15.  The length read before the end of a DMA.                          *)
(***************************************************************************)

\* e < t_duration
BeforeEnd(x) == Less(Elapsed(x), x.time_length)

\* floor(length_total * (t_duration - e) / t_duration) with the low 5 bits
\* cleared
RemainingFloor(x) ==
    Cleared5(Div(Mul(Wide(x.data_length), Sub(Wide(x.time_length), Wide(Elapsed(x)))),
                 Wide(x.time_length)))

\* the statement of C15 as it stands: during a DMA a read of EXI_DMALENGTH at
\* e < t_duration returns floor(length_total * (t_duration - e) / t_duration)
\* with the low 5 bits cleared
C15_AsStated ==
    [][\A x \in {Transfer} :
         (Did("ReadDMALength") /\ DMAActive /\ BeforeEnd(x)) =>
            Wide(ret'.val) = RemainingFloor(x)]_vars

\* C15: during a DMA a read of EXI_DMALENGTH at e < t_duration, with
\* length_total * e below 2^64, returns and stores length_total minus
\* floor(length_total * e / t_duration), with the low 5 bits cleared: the
\* bytes still to move are rounded up, not down
C15_LengthBeforeEnd ==
    [][\A x \in {Transfer} :
         (Did("ReadDMALength") /\ DMAActive /\ BeforeEnd(x) /\ ProductFits(x)) =>
            /\ m_DMALength' = ret'.val
            /\ Wide(ret'.val) = ExactLength(x)]_vars

\* 10 ticks into a DMA of 32 bytes that lasts 3888 ticks a read of
\* EXI_DMALENGTH has just returned 32, where the claimed floor of 31.9 gives 0
C15_Witness ==
    /\ ret = Ret("ReadDMALength", U32(32))
    /\ DMAActive
    /\ m_dma_data_length = U32(32)
    /\ m_dma_time_length = U64(3888)
    /\ Elapsed(Transfer) = U64(10)

(***************************************************************************)
(* C16.  Reads at and past the end of a DMA.                               *)
(***************************************************************************)

\* C16: while a DMA is in flight with its completion event pending and
\* e >= t_duration, a read of EXI_DMAADDR or EXI_DMALENGTH is well defined;
\* the first returns addr_start + length_total with the low 5 bits cleared,
\* the second returns 0
C16_AsStated ==
    [][\A x \in {Transfer} :
         (DMAActive /\ events # <<>> /\ ~BeforeEnd(x)) =>
            /\ fault' = "none"
            /\ ret'.op = "ReadDMAAddr" =>
                  ret'.val = Align32(Add(x.data_start, x.data_length))
            /\ ret'.op = "ReadDMALength" => ret'.val = U32(0)]_vars

(***************************************************************************)
(* C17.  What a DMA does at kick-off and what it does at completion.       *)
(***************************************************************************)

\* the device operation a DMA with the RW code rw invokes
DMACallName(rw) == IF rw = EXI_READ THEN "DMARead" ELSE "DMAWrite"

\* the statement of C17 as it stands: the device is called inside the control
\* write that kicks a DMA off; while the completion event of a DMA of at least
\* one byte is pending no read of EXI_DMALENGTH returns 0 and no read of
\* EXI_DMAADDR returns addr_start + length_total; TCINT goes from 0 to 1 only
\* when the completion event of a DMA fires
C17_AsStated ==
    [][ /\ ( /\ Did("WriteDMAControl")
             /\ m_Control.TSTART = 0 /\ m_Control'.TSTART = 1
             /\ m_Control'.DMA = 1 /\ m_Control'.RW \in {EXI_READ, EXI_WRITE}
             /\ Decoded(m_Status.CHIP_SELECT) )
           => /\ Len(calls') = 2
              /\ calls'[1].fn = DMACallName(m_Control'.RW)
        /\ ( /\ Did("ReadDMALength")
             /\ DMAActive /\ events # <<>> /\ m_dma_data_length # U32(0) )
           => ret'.val # U32(0)
        /\ ( /\ Did("ReadDMAAddr")
             /\ DMAActive /\ events # <<>> /\ m_dma_data_length # U32(0) )
           => ret'.val # Add(m_dma_data_start, m_dma_data_length)
        /\ (m_Status.TCINT = 0 /\ m_Status'.TCINT = 1)
           => Did("TransferComplete") /\ m_Control.DMA = 1
      ]_vars

\* C17: the control write that kicks a DMA off calls DMARead or DMAWrite on
\* the selected device with the address and the length of the registers, and
\* leaves TCINT alone; the completion event of a DMA sets TCINT, stores 0 in
\* m_DMALength and addr_start + length_total in m_DMAMemoryAddress; no
\* register access, AddDevice call or other timer event turns TCINT from 0
\* to 1
C17_KickOffAndCompletion ==
    [][ /\ ( /\ Did("WriteDMAControl")
             /\ m_Control.TSTART = 0 /\ m_Control'.TSTART = 1
             /\ m_Control'.DMA = 1 /\ m_Control'.RW \in {EXI_READ, EXI_WRITE}
             /\ Decoded(m_Status.CHIP_SELECT) )
           => /\ Len(calls') = 2
              /\ calls'[1] = Call(DMACallName(m_Control'.RW), SlotOf(m_Status.CHIP_SELECT),
                                  <<m_DMAMemoryAddress, m_DMALength>>)
              /\ m_Status' = m_Status
        /\ (Did("TransferComplete") /\ m_Control.DMA = 1)
           => /\ m_Status'.TCINT = 1
              /\ m_DMALength' = U32(0)
              /\ m_DMAMemoryAddress' = Add(m_dma_data_start, m_dma_data_length)
        /\ (ret'.op # "DoState" /\ m_Status.TCINT = 0 /\ m_Status'.TCINT = 1)
           => Did("TransferComplete") /\ m_Control.DMA = 1
      ]_vars

\* the completion event of a DMA of 64 bytes from address 4112 has fired:
\* TCINT is set, m_DMALength is 0 and m_DMAMemoryAddress is 4176
C17_Witness ==
    /\ ret.op = "TransferComplete"
    /\ m_Status.TCINT = 1
    /\ m_DMALength = U32(0)
    /\ m_DMAMemoryAddress = U32(4176)
    /\ m_Control.TSTART = 0

(***************************************************************************)
(* C18.  The pending completion event.                                     *)
(***************************************************************************)

\* C18: at most one xfer_complete event of the channel is pending, and while
\* one is pending TSTART is set
C18_OnePendingEvent ==
    /\ Len(events) <= 1
    /\ \A i \in 1..Len(events) :
         /\ events[i].userdata = m_ChannelId
         /\ m_Control.TSTART = 1

\* the event of the second transfer of the channel is pending
C18_Witness ==
    /\ Len(events) = 1
    /\ m_Control.TSTART = 1
    /\ started = 2
    /\ fault = "none"

(***************************************************************************)
(* C19.  Chip-select lines and CHIP_SELECT.                                *)
(***************************************************************************)

\* C19: a device other than the "none" device has been told SetCS(1) last
\* exactly when it sits in the slot CHIP_SELECT decodes to, so that at most one
\* device of the channel is asserted
C19_AsStated ==
    /\ \A d \in 0..(NUM_DEVICES - 1) :
         IsPresent(m_pDevices[d]) =>
            (m_pDevices[d].cs = 1 <=>
               (Decoded(m_Status.CHIP_SELECT) /\ SlotOf(m_Status.CHIP_SELECT) = d))
    /\ Cardinality({d \in 0..(NUM_DEVICES - 1) : m_pDevices[d].cs = 1}) <= 1

(***************************************************************************)
(* C20.  The registers written during a DMA.                               *)
(***************************************************************************)

\* the quotients a read at x may work with: the progress, or with t_duration
\* = 0 whatever the undefined division leaves (past the end none is used)
Quotients(x) ==
    IF x.time_length = U64(0) THEN UndefinedQuotients ELSE {Progress(x)}

\* the address and the length of the snapshot and the instant x, for the
\* quotient q, with the low 5 bits cleared
SnapshotAddress(x, q) ==
    Cleared5(IF Less(x.time_length, Elapsed(x)) THEN Add(x.data_start, x.data_length)
             ELSE Resize(Add(Resize(x.data_start, 8), q), 4))

SnapshotLength(x, q) ==
    Cleared5(IF Less(x.time_length, Elapsed(x)) THEN U32(0)
             ELSE Resize(Sub(Resize(x.data_length, 8), q), 4))

\* C20: during a DMA what a read of EXI_DMAADDR or EXI_DMALENGTH returns is
\* fixed by the snapshot and the tick count, and so are the values the
\* completion stores; a write to EXI_DMAADDR or EXI_DMALENGTH during the DMA
\* changes its register only, and leaves the snapshot, the clock, the pending
\* event and the control register alone
C20_SnapshotOnly ==
    [][\A x \in {Transfer} :
         /\ (Did("ReadDMAAddr") /\ DMAActive) =>
               \E q \in Quotients(x) : ret'.val = SnapshotAddress(x, q)
         /\ (Did("ReadDMALength") /\ DMAActive) =>
               \E q \in Quotients(x) : ret'.val = SnapshotLength(x, q)
         /\ (Did("TransferComplete") /\ m_Control.DMA = 1) =>
               /\ m_DMAMemoryAddress' = Add(x.data_start, x.data_length)
               /\ m_DMALength' = U32(0)
         /\ ((Did("WriteDMAAddr") \/ Did("WriteDMALength")) /\ DMAActive) =>
               /\ UNCHANGED <<snapshot, ticks, events, m_Control, m_Status>>
               /\ ret'.op = "WriteDMAAddr" =>
                     m_DMAMemoryAddress' = ret'.val /\ m_DMALength' = m_DMALength
               /\ ret'.op = "WriteDMALength" =>
                     m_DMALength' = ret'.val /\ m_DMAMemoryAddress' = m_DMAMemoryAddress
      ]_vars

\* half way through a DMA of 64 bytes from address 4112, and after software
\* has written 0 to EXI_DMALENGTH, a read of EXI_DMAADDR has returned 4128
C20_Witness ==
    /\ ret = Ret("ReadDMAAddr", U32(4128))
    /\ DMAActive
    /\ m_dma_data_start = U32(4112)
    /\ m_dma_data_length = U32(64)
    /\ m_DMALength = U32(0)
    /\ Elapsed(Transfer) = U64(3888)

====
